---- MODULE Spec2Model ----
(***************************************************************************)
(* Model of the request-tracing core of otel-distributed/server            *)
(* (src/otel-distributed/server/src/main.rs): the `hello` handler, the     *)
(* `validate_message` helper, the `HeaderExtractor` carrier and the        *)
(* `AppError` response mapping.                                            *)
(*                                                                         *)
(* The tracing library is an external collaborator.  What the model takes  *)
(* from it is its documented behaviour at the call sites of main.rs:       *)
(*   - the current context is a per-thread stack; `attach` pushes and the  *)
(*     guard's drop pops;                                                  *)
(*   - a span started under a context with an active span inherits that    *)
(*     span's trace id and records its span id as parent; started under a  *)
(*     context without one it is a root span with a generated trace id;    *)
(*   - a span ends when the last context holding it is dropped;            *)
(*   - the propagator returns the context it was given unchanged when the  *)
(*     carrier has no decodable propagation header.                        *)
(***************************************************************************)
EXTENDS Integers, Sequences, FiniteSets, TLC

\* ---------------------------------------------------------------- bounds
NumRequests == 2
NumThreads == 2
NumWorkers == 1

Requests == 1..NumRequests
Threads == 1..NumThreads

\* ------------------------------------------------------------ input sets
\* The `message` query parameter: absent, or present with a value.
Absent == <<>>
Present(s) == <<s>>
Queries == {Absent, Present(""), Present("World")}

\* One header value: `text` is whether HeaderValue::to_str succeeds, `wire`
\* the dash-separated fields of the propagation header.
TraceHeader == "sentry-trace"
HeaderMaps ==
    { <<>>,
      TraceHeader :> [text |-> TRUE, wire |-> <<7, 9, 1>>],
      TraceHeader :> [text |-> TRUE, wire |-> <<7>>],
      TraceHeader :> [text |-> FALSE, wire |-> <<7, 9, 1>>] }

\* --------------------------------------------------------------- options
None == <<>>
Some(v) == <<v>>

\* ------------------------------------------------------- HeaderExtractor
\* The keys a caller may pass to get(): header names in several spellings,
\* a name no request carries, and a string that is no header name.
CarrierKeys ==
    {"sentry-trace", "Sentry-Trace", "SENTRY-TRACE", "baggage", "Baggage",
     "x-missing", ""}

\* HeaderMap::get(&str) looks the key up by its lower-case form; the map
\* stores names in lower case.
Lower(key) ==
    CASE key = "Sentry-Trace" -> "sentry-trace"
      [] key = "SENTRY-TRACE" -> "sentry-trace"
      [] key = "Baggage" -> "baggage"
      [] OTHER -> key

\* Mutant of HeaderGet: the key is compared as it is spelled.
HeaderGetExact(headers, key) ==
    IF key \in DOMAIN headers /\ headers[key].text
    THEN Some(headers[key].wire)
    ELSE None

\* get: headers.get(key).and_then(|v| v.to_str().ok())
HeaderGet(headers, key) ==
    IF Lower(key) \in DOMAIN headers /\ headers[Lower(key)].text
    THEN Some(headers[Lower(key)].wire)
    ELSE None

\* keys: headers.keys().map(|k| k.as_str()).collect()
HeaderKeys(headers) == DOMAIN headers

\* ------------------------------------------------------------- contexts
\* A context is identified by the span context of its active span;
\* span_id = 0 is "no active span".
EmptyCtx == [trace_id |-> 0, span_id |-> 0]

\* Context::current(): the top of the thread's stack, or the empty context.
CurrentContext(stk) == IF Len(stk) = 0 THEN EmptyCtx ELSE stk[Len(stk)]

\* cx.attach(): push.
Attach(stk, cx) == Append(stk, cx)

\* Mutant of Detach: the guard's drop leaves the attached context current.
DetachNothing(stk) == stk

\* drop of the guard returned by attach(): pop.
Detach(stk) == SubSeq(stk, 1, Len(stk) - 1)

\* The wire format of the propagation header: trace id, span id and an
\* optional sampled flag.
ParseTrace(wire) ==
    IF Len(wire) \in {2, 3} /\ wire[1] # 0 /\ wire[2] # 0
    THEN Some([trace_id |-> wire[1], span_id |-> wire[2]])
    ELSE None

\* prop.extract(&HeaderExtractor::new(&headers)): scans keys(), reads each
\* with get(), decodes the propagation header; without a decodable header
\* the result is the current context.
Extract(cur, headers) ==
    LET readable == {k \in HeaderKeys(headers) : HeaderGet(headers, k) # None}
        decoded == IF TraceHeader \in readable
                   THEN ParseTrace(HeaderGet(headers, TraceHeader)[1])
                   ELSE None
    IN  IF decoded # None THEN decoded[1] ELSE cur

\* ---------------------------------------------------------------- spans
Unset == [code |-> "Unset", description |-> ""]
Ok == [code |-> "Ok", description |-> ""]
Error(d) == [code |-> "Error", description |-> d]

NoSpan == [name |-> "", kind |-> "", trace_id |-> 0, span_id |-> 0,
           parent_span_id |-> 0, status |-> Unset, state |-> "none"]

\* The id generator: ids are fresh, distinct from each other and from the
\* ids a header can carry.
SpanSlot == [srv |-> 1, val |-> 2, work |-> 3]
NewSpanId(r, k) == 10 * r + SpanSlot[k]
NewTraceId(r) == 100 + r

\* Mutant of StartSpan: every span started as the root of a new trace.
StartSpanAsRoot(r, k, name, kind, parent) ==
    [name |-> name, kind |-> kind,
     trace_id |-> 100 + NewSpanId(r, k),
     span_id |-> NewSpanId(r, k),
     parent_span_id |-> 0,
     status |-> Unset, state |-> "open"]

\* span_builder(name).with_kind(kind).start_with_context(&tracer, &parent)
StartSpan(r, k, name, kind, parent) ==
    [name |-> name, kind |-> kind,
     trace_id |-> IF parent.span_id # 0 THEN parent.trace_id ELSE NewTraceId(r),
     span_id |-> NewSpanId(r, k),
     parent_span_id |-> parent.span_id,
     status |-> Unset, state |-> "open"]

\* Context::current_with_span(span)
ContextOf(sp) == [trace_id |-> sp.trace_id, span_id |-> sp.span_id]

\* span.set_status(status): ignored once the span has ended.
SetStatus(sp, st) == IF sp.state = "open" THEN [sp EXCEPT !.status = st] ELSE sp

\* drop of the last context holding the span: the span ends.
EndSpan(sp) == [sp EXCEPT !.state = "closed"]

\* ------------------------------------------------------------- AppError
\* #[serde(default)] message: String
MessageOf(query) == IF query = Absent THEN "" ELSE query[1]

\* params.message.is_empty()
IsEmpty(s) == s = ""

InvalidInput(m) == [variant |-> "InvalidInput", message |-> m]

\* #[error("Invalid input: {0}")]
ErrorToString(e) == "Invalid input: " \o e.message

\* Mutant of StatusOf: the variant mapped to an internal error.
StatusOfInternal(e) == 500

\* AppError::InvalidInput(_) => StatusCode::BAD_REQUEST
StatusOf(e) == 400

\* impl IntoResponse for AppError
ErrorResponse(e) == [status |-> StatusOf(e), body |-> <<"error", ErrorToString(e)>>]

\* Mutant of HelloBody: the greeting without the message.
HelloBodyNoEcho(message) == "Hello from Rust! You sent: "

\* Ok(Json(HelloResponse { message: format!("Hello from Rust! You sent: {}", ..) }))
HelloBody(message) == "Hello from Rust! You sent: " \o message
OkResponse(message) == [status |-> 200, body |-> <<"message", HelloBody(message)>>]

NoResponse == [status |-> 0, body |-> <<>>]

\* ---------------------------------------------------------------- state
VARIABLES
    pc,         \* position of each request's handler
    req,        \* the request: its query and its headers
    thread,     \* the worker thread the handler runs on (0: none)
    stack,      \* per thread: the active-context stack
    base,       \* per request: the thread's stack when the handler started
    exit,       \* per request: the thread's stack when the handler returned
    parent,     \* per request: the context extracted from the headers
    span,       \* per request: its srv, val and work spans
    sinkUp,     \* whether the capture channel delivers (fixed by sentry::init)
    sink,       \* per request: what the capture channel did with its error
    result,     \* per request: what validate_message / hello returned
    response,   \* per request: the rendered response
    log,        \* per request: the operations performed, in order
    probe       \* a HeaderExtractor over a header map, and what was read from it

vars == <<pc, req, thread, stack, base, exit, parent, span, sinkUp, sink, result, response,
          log, probe>>

NotReturned == <<"running">>

NoRequest == [query |-> Absent, headers |-> <<>>]

NoProbe == [initial |-> <<>>, headers |-> <<>>, op |-> "none", key |-> "",
            got |-> None, names |-> {}]

Init ==
    /\ pc = [r \in Requests |-> "idle"]
    /\ req = [r \in Requests |-> NoRequest]
    /\ thread = [r \in Requests |-> 0]
    /\ stack = [t \in Threads |-> <<>>]
    /\ base = [r \in Requests |-> <<>>]
    /\ exit = [r \in Requests |-> NotReturned]
    /\ parent = [r \in Requests |-> EmptyCtx]
    /\ span = [r \in Requests |-> [srv |-> NoSpan, val |-> NoSpan, work |-> NoSpan]]
    /\ sinkUp \in BOOLEAN
    /\ sink = [r \in Requests |-> "none"]
    /\ result = [r \in Requests |-> None]
    /\ response = [r \in Requests |-> NoResponse]
    /\ log = [r \in Requests |-> <<>>]
    /\ probe = NoProbe

\* Mutant of ThreadFree: a worker polls another handler while one is in a
\* wait, as it would if the waits were await points.
ThreadFreeAlways(t) == TRUE

\* hello has no await point: from its first statement to its return it
\* occupies the worker thread it was polled on.
ThreadFree(t) == \A r \in Requests : thread[r] # t

\* The handler's three waits are wrapped in tokio::task::block_in_place:
\* positions of a handler that is inside one of them.
InDelay(r) == pc[r] \in {"srv_open", "validating", "working"}

\* Mutant of HoldsCore: the waits are plain thread::sleep calls, so the
\* handler keeps its worker core while it sleeps.
HoldsCoreInWaits(r) == thread[r] # 0

\* The runtime built in main has NumWorkers worker cores, and a task is
\* polled by a thread that holds one.  block_in_place hands the core of
\* the calling thread to another thread for the duration of the closure;
\* outside it a running handler is counted as holding a core.
HoldsCore(r) == thread[r] # 0 /\ ~InDelay(r)

CoreFree == Cardinality({q \in Requests : HoldsCore(q)}) < NumWorkers

\* Threads are interchangeable and requests are numbered in order of
\* arrival: the handler of request r is polled once its predecessors have
\* arrived and a core is free, on the first thread that is free.
Schedulable(r, t) ==
    /\ \A q \in 1..(r - 1) : pc[q] # "idle"
    /\ CoreFree
    /\ ThreadFree(t)
    /\ \A u \in 1..(t - 1) : ~ThreadFree(u)

\* Mutant of HelloStart: a propagation header that get() cannot read, or
\* that does not decode, is answered with an error before any span is
\* opened.
HelloStartStrict(r) ==
    /\ pc[r] = "idle"
    /\ \E t \in Threads, q \in Queries, h \in HeaderMaps :
        /\ Schedulable(r, t)
        /\ req' = [req EXCEPT ![r] = [query |-> q, headers |-> h]]
        /\ base' = [base EXCEPT ![r] = stack[t]]
        /\ IF TraceHeader \in HeaderKeys(h) /\ Extract(EmptyCtx, h) = EmptyCtx
           THEN /\ response' = [response EXCEPT ![r] =
                                  ErrorResponse(InvalidInput("bad trace header"))]
                /\ exit' = [exit EXCEPT ![r] = stack[t]]
                /\ pc' = [pc EXCEPT ![r] = "failed"]
                /\ log' = [log EXCEPT ![r] = @ \o <<"extract", "return_err">>]
                /\ UNCHANGED <<thread, parent, span, stack>>
           ELSE LET cx == Extract(CurrentContext(stack[t]), h)
                    sp == StartSpan(r, "srv", "handle_hello", "Server", cx)
                IN  /\ thread' = [thread EXCEPT ![r] = t]
                    /\ parent' = [parent EXCEPT ![r] = cx]
                    /\ span' = [span EXCEPT ![r].srv = sp]
                    /\ stack' = [stack EXCEPT ![t] = Attach(@, ContextOf(sp))]
                    /\ log' = [log EXCEPT ![r] = @ \o <<"extract", "srv_open", "srv_attach">>]
                    /\ pc' = [pc EXCEPT ![r] = "srv_open"]
                    /\ UNCHANGED <<exit, response>>
    /\ UNCHANGED <<probe, sinkUp, sink, result>>

\* The request arrives and hello is polled on a free worker; lines 122-143:
\* extract the parent context, start the Server span under it, attach it
\* as current.  The handler is then in its first 200 ms wait.
HelloStart(r) ==
    /\ pc[r] = "idle"
    /\ \E t \in Threads, q \in Queries, h \in HeaderMaps :
        /\ Schedulable(r, t)
        /\ LET cx == Extract(CurrentContext(stack[t]), h)
               sp == StartSpan(r, "srv", "handle_hello", "Server", cx)
           IN  /\ req' = [req EXCEPT ![r] = [query |-> q, headers |-> h]]
               /\ thread' = [thread EXCEPT ![r] = t]
               /\ base' = [base EXCEPT ![r] = stack[t]]
               /\ parent' = [parent EXCEPT ![r] = cx]
               /\ span' = [span EXCEPT ![r].srv = sp]
               /\ stack' = [stack EXCEPT ![t] = Attach(@, ContextOf(sp))]
    /\ log' = [log EXCEPT ![r] = @ \o <<"extract", "srv_open", "srv_attach">>]
    /\ pc' = [pc EXCEPT ![r] = "srv_open"]
    /\ UNCHANGED <<exit, probe, sinkUp, sink, result, response>>

\* Mutant of ActiveSpanId: the span of the outermost attached context.
ActiveSpanIdRoot(stk) == IF Len(stk) = 0 THEN 0 ELSE stk[1].span_id

\* The id of the span get_active_span hands to its closure: the span of
\* the current context.
ActiveSpanId(stk) == CurrentContext(stk).span_id

\* get_active_span(|span| span.set_status(st)) on a thread whose current
\* context holds the span with the given id.
SetActiveStatus(spans, id, st) ==
    [q \in Requests |->
        [srv |-> IF id # 0 /\ spans[q].srv.span_id = id
                 THEN SetStatus(spans[q].srv, st) ELSE spans[q].srv,
         val |-> IF id # 0 /\ spans[q].val.span_id = id
                 THEN SetStatus(spans[q].val, st) ELSE spans[q].val,
         work |-> IF id # 0 /\ spans[q].work.span_id = id
                  THEN SetStatus(spans[q].work, st) ELSE spans[q].work]]

\* validate_message, lines 84-94, entered after hello's first 200 ms wait:
\* start the validate_params span under the current context, attach it.
ValidateStart(r) ==
    /\ pc[r] = "srv_open"
    /\ LET t == thread[r]
           sp == StartSpan(r, "val", "validate_params", "Internal",
                           CurrentContext(stack[t]))
       IN  /\ span' = [span EXCEPT ![r].val = sp]
           /\ stack' = [stack EXCEPT ![t] = Attach(@, ContextOf(sp))]
    /\ log' = [log EXCEPT ![r] = @ \o <<"hello_sleep", "val_open", "val_attach">>]
    /\ pc' = [pc EXCEPT ![r] = "validating"]
    /\ UNCHANGED <<req, thread, base, exit, parent, probe, sinkUp, sink, result, response>>

\* Mutant of Capture: the error never reaches the capture channel.
CaptureNothing(up) == "none"

\* sentry::capture_error(&err): the event is sent when the client that
\* sentry::init built is enabled, dropped otherwise; the caller gets an
\* event id either way.
Capture(up) == IF up THEN "sent" ELSE "lost"

\* Mutant of ValidateFail: the capture call's outcome is checked, and a
\* lost event replaces the error that is returned.
ValidateFailCaptureChecked(r) ==
    /\ pc[r] = "validating"
    /\ IsEmpty(MessageOf(req[r].query))
    /\ LET t == thread[r]
           marked == SetActiveStatus(span, ActiveSpanId(stack[t]),
                                     Error("Message cannot be empty"))
       IN  /\ span' = [marked EXCEPT ![r].val = EndSpan(@)]
           /\ stack' = [stack EXCEPT ![t] = Detach(@)]
    /\ sink' = [sink EXCEPT ![r] = Capture(sinkUp)]
    /\ result' = [result EXCEPT ![r] =
                    IF sinkUp
                    THEN Some(InvalidInput("Message cannot be empty"))
                    ELSE Some(InvalidInput("capture failed"))]
    /\ log' = [log EXCEPT ![r] = @ \o <<"val_sleep", "set_status_error", "capture",
                                       "val_return_err", "val_detach", "val_close">>]
    /\ pc' = [pc EXCEPT ![r] = "val_err"]
    /\ UNCHANGED <<req, thread, base, exit, parent, probe, sinkUp, response>>

\* Mutant of ValidateFail: the error is captured and returned without the
\* active span having been marked.
ValidateFailUnmarked(r) ==
    /\ pc[r] = "validating"
    /\ IsEmpty(MessageOf(req[r].query))
    /\ span' = [span EXCEPT ![r].val = EndSpan(@)]
    /\ stack' = [stack EXCEPT ![thread[r]] = Detach(@)]
    /\ sink' = [sink EXCEPT ![r] = Capture(sinkUp)]
    /\ result' = [result EXCEPT ![r] =
                    Some(InvalidInput("Message cannot be empty"))]
    /\ log' = [log EXCEPT ![r] = @ \o <<"val_sleep", "capture",
                                       "val_return_err", "val_detach", "val_close">>]
    /\ pc' = [pc EXCEPT ![r] = "val_err"]
    /\ UNCHANGED <<req, thread, base, exit, parent, probe, sinkUp, response>>

\* validate_message, lines 102-117, after its 50 ms wait: the message is
\* empty; the active span is marked Error, the error is built and handed
\* to the capture channel, and Err(err) is returned: the guard is dropped,
\* then the context holding the validate_params span.
ValidateFail(r) ==
    /\ pc[r] = "validating"
    /\ IsEmpty(MessageOf(req[r].query))
    /\ LET t == thread[r]
           marked == SetActiveStatus(span, ActiveSpanId(stack[t]),
                                     Error("Message cannot be empty"))
       IN  /\ span' = [marked EXCEPT ![r].val = EndSpan(@)]
           /\ stack' = [stack EXCEPT ![t] = Detach(@)]
    /\ sink' = [sink EXCEPT ![r] = Capture(sinkUp)]
    /\ result' = [result EXCEPT ![r] =
                    Some(InvalidInput("Message cannot be empty"))]
    /\ log' = [log EXCEPT ![r] = @ \o <<"val_sleep", "set_status_error", "capture",
                                       "val_return_err", "val_detach", "val_close">>]
    /\ pc' = [pc EXCEPT ![r] = "val_err"]
    /\ UNCHANGED <<req, thread, base, exit, parent, probe, sinkUp, response>>

\* Mutant of ValidateOk: the context holding the validate_params span
\* outlives validate_message, so the span is not ended when it returns.
ValidateOkSpanKept(r) ==
    /\ pc[r] = "validating"
    /\ ~IsEmpty(MessageOf(req[r].query))
    /\ stack' = [stack EXCEPT ![thread[r]] = Detach(@)]
    /\ log' = [log EXCEPT ![r] = @ \o <<"val_sleep", "val_return_ok", "val_detach">>]
    /\ pc' = [pc EXCEPT ![r] = "val_ok"]
    /\ UNCHANGED <<req, thread, base, exit, parent, span, probe, sinkUp, sink, result, response>>

\* Mutant of ValidateOk: the guard is leaked, so the validate_params
\* context stays current after the span has ended.
ValidateOkGuardKept(r) ==
    /\ pc[r] = "validating"
    /\ ~IsEmpty(MessageOf(req[r].query))
    /\ span' = [span EXCEPT ![r].val = EndSpan(@)]
    /\ log' = [log EXCEPT ![r] = @ \o <<"val_sleep", "val_return_ok", "val_close">>]
    /\ pc' = [pc EXCEPT ![r] = "val_ok"]
    /\ UNCHANGED <<req, thread, stack, base, exit, parent, probe, sinkUp, sink, result, response>>

\* Mutant of ValidateOk: the validate_params span marked Ok before Ok(())
\* is returned.
ValidateOkMarked(r) ==
    /\ pc[r] = "validating"
    /\ ~IsEmpty(MessageOf(req[r].query))
    /\ stack' = [stack EXCEPT ![thread[r]] = Detach(@)]
    /\ span' = [span EXCEPT ![r].val = EndSpan(SetStatus(@, Ok))]
    /\ log' = [log EXCEPT ![r] = @ \o <<"val_sleep", "val_set_ok", "val_return_ok",
                                       "val_detach", "val_close">>]
    /\ pc' = [pc EXCEPT ![r] = "val_ok"]
    /\ UNCHANGED <<req, thread, base, exit, parent, probe, sinkUp, sink, result, response>>

\* validate_message, line 119: Ok(()); the same drops.
ValidateOk(r) ==
    /\ pc[r] = "validating"
    /\ ~IsEmpty(MessageOf(req[r].query))
    /\ stack' = [stack EXCEPT ![thread[r]] = Detach(@)]
    /\ span' = [span EXCEPT ![r].val = EndSpan(@)]
    /\ log' = [log EXCEPT ![r] = @ \o <<"val_sleep", "val_return_ok", "val_detach", "val_close">>]
    /\ pc' = [pc EXCEPT ![r] = "val_ok"]
    /\ UNCHANGED <<req, thread, base, exit, parent, probe, sinkUp, sink, result, response>>

\* Mutant of HelloReturnErr: the error of validate_message is swallowed
\* and the handler goes on to the work phase.
HelloReturnErrSwallowed(r) ==
    /\ pc[r] = "val_err"
    /\ log' = [log EXCEPT ![r] = @ \o <<"error_ignored">>]
    /\ pc' = [pc EXCEPT ![r] = "val_ok"]
    /\ UNCHANGED <<req, thread, stack, base, exit, parent, span, probe, sinkUp, sink,
                   result, response>>

\* hello, lines 154-156: return Err(e); the Server guard is dropped, then
\* the context holding the Server span; the error is rendered.
HelloReturnErr(r) ==
    /\ pc[r] = "val_err"
    /\ stack' = [stack EXCEPT ![thread[r]] = Detach(@)]
    /\ span' = [span EXCEPT ![r].srv = EndSpan(@)]
    /\ response' = [response EXCEPT ![r] = ErrorResponse(result[r][1])]
    /\ thread' = [thread EXCEPT ![r] = 0]
    /\ exit' = [exit EXCEPT ![r] = stack'[thread[r]]]
    /\ log' = [log EXCEPT ![r] = @ \o <<"return_err", "srv_detach", "srv_close">>]
    /\ pc' = [pc EXCEPT ![r] = "failed"]
    /\ UNCHANGED <<req, base, parent, probe, sinkUp, sink, result>>

\* Mutant of MarkWorkOk: Ok set through get_active_span, before the work
\* span is attached, so it lands on the span that is current.
MarkWorkOkActive(spans, r, stk) == SetActiveStatus(spans, ActiveSpanId(stk), Ok)

\* Mutant of MarkWorkOk: the work span is not marked when it is started.
MarkWorkSkipped(spans, r, stk) == spans

\* work_span.set_status(Status::Ok): the status goes on the span the local
\* variable holds, whatever the current context of the thread is.
MarkWorkOk(spans, r, stk) == [spans EXCEPT ![r].work = SetStatus(@, Ok)]

\* hello, lines 159-169: start the simulate_work span under the current
\* context (start(&tracer) takes Context::current()), mark it Ok, attach it.
WorkStart(r) ==
    /\ pc[r] = "val_ok"
    /\ LET t == thread[r]
           sp == StartSpan(r, "work", "simulate_work", "Internal",
                           CurrentContext(stack[t]))
           started == [span EXCEPT ![r].work = sp]
       IN  /\ span' = MarkWorkOk(started, r, stack[t])
           /\ stack' = [stack EXCEPT ![t] = Attach(@, ContextOf(sp))]
    /\ log' = [log EXCEPT ![r] = @ \o <<"work_open", "work_set_ok", "work_attach">>]
    /\ pc' = [pc EXCEPT ![r] = "working"]
    /\ UNCHANGED <<req, thread, base, exit, parent, probe, sinkUp, sink, result, response>>

\* Mutant of HelloReturnOk: the Server guard and context dropped before
\* the work guard and context.
HelloReturnOkServerFirst(r) ==
    /\ pc[r] = "working"
    /\ stack' = [stack EXCEPT ![thread[r]] = Detach(Detach(@))]
    /\ span' = [span EXCEPT ![r].work = EndSpan(@), ![r].srv = EndSpan(@)]
    /\ response' = [response EXCEPT ![r] = OkResponse(MessageOf(req[r].query))]
    /\ thread' = [thread EXCEPT ![r] = 0]
    /\ exit' = [exit EXCEPT ![r] = stack'[thread[r]]]
    /\ log' = [log EXCEPT ![r] = @ \o <<"work_sleep", "return_ok", "srv_detach",
                                       "srv_close", "work_detach", "work_close">>]
    /\ pc' = [pc EXCEPT ![r] = "done"]
    /\ UNCHANGED <<req, base, parent, probe, sinkUp, sink, result>>

\* hello, lines 172-179, after the second 200 ms wait: build the success
\* payload and return it; locals drop in reverse order of declaration:
\* work guard, work context (the span ends), Server guard, Server context.
HelloReturnOk(r) ==
    /\ pc[r] = "working"
    /\ stack' = [stack EXCEPT ![thread[r]] = Detach(Detach(@))]
    /\ span' = [span EXCEPT ![r].work = EndSpan(@), ![r].srv = EndSpan(@)]
    /\ response' = [response EXCEPT ![r] = OkResponse(MessageOf(req[r].query))]
    /\ thread' = [thread EXCEPT ![r] = 0]
    /\ exit' = [exit EXCEPT ![r] = stack'[thread[r]]]
    /\ log' = [log EXCEPT ![r] = @ \o <<"work_sleep", "return_ok", "work_detach",
                                       "work_close", "srv_detach", "srv_close">>]
    /\ pc' = [pc EXCEPT ![r] = "done"]
    /\ UNCHANGED <<req, base, parent, probe, sinkUp, sink, result>>

Next ==
    \E r \in Requests :
        \/ HelloStart(r)
        \/ ValidateStart(r)
        \/ ValidateFail(r)
        \/ ValidateOk(r)
        \/ HelloReturnErr(r)
        \/ WorkStart(r)
        \/ HelloReturnOk(r)

Spec == Init /\ [][Next]_vars

\* println! panics when the write to stdout fails.  hello, lines 145-146:
\* the panic unwinds hello with the Server span started and attached; the
\* guard is dropped, then the context holding the span, which ends with
\* the status it has; no response is built.
HelloAbort(r) ==
    /\ pc[r] = "idle"
    /\ \E t \in Threads, q \in Queries, h \in HeaderMaps :
        /\ Schedulable(r, t)
        /\ LET cx == Extract(CurrentContext(stack[t]), h)
               sp == StartSpan(r, "srv", "handle_hello", "Server", cx)
               unwound == Detach(Attach(stack[t], ContextOf(sp)))
           IN  /\ req' = [req EXCEPT ![r] = [query |-> q, headers |-> h]]
               /\ base' = [base EXCEPT ![r] = stack[t]]
               /\ parent' = [parent EXCEPT ![r] = cx]
               /\ span' = [span EXCEPT ![r].srv = EndSpan(sp)]
               /\ stack' = [stack EXCEPT ![t] = unwound]
               /\ exit' = [exit EXCEPT ![r] = unwound]
    /\ log' = [log EXCEPT ![r] = @ \o <<"extract", "srv_open", "srv_attach", "panic",
                                       "srv_detach", "srv_close">>]
    /\ pc' = [pc EXCEPT ![r] = "aborted"]
    /\ UNCHANGED <<thread, probe, sinkUp, sink, result, response>>

\* Mutant of ValidateAbort: the panic ends the handler without unwinding,
\* so nothing is dropped and the open spans are never ended.
ValidateAbortNoUnwind(r) ==
    /\ pc[r] = "validating"
    /\ IsEmpty(MessageOf(req[r].query))
    /\ span' = SetActiveStatus(span, ActiveSpanId(stack[thread[r]]),
                               Error("Message cannot be empty"))
    /\ exit' = [exit EXCEPT ![r] = stack[thread[r]]]
    /\ log' = [log EXCEPT ![r] = @ \o <<"val_sleep", "set_status_error", "panic">>]
    /\ pc' = [pc EXCEPT ![r] = "aborted"]
    /\ UNCHANGED <<req, thread, stack, base, parent, probe, sinkUp, sink, result, response>>

\* validate_message, line 110: the panic comes after the active span has
\* been marked Error and before the error is built and captured; it
\* unwinds validate_message, then hello: each guard is dropped, then the
\* context holding its span.
ValidateAbort(r) ==
    /\ pc[r] = "validating"
    /\ IsEmpty(MessageOf(req[r].query))
    /\ LET t == thread[r]
           marked == SetActiveStatus(span, ActiveSpanId(stack[t]),
                                     Error("Message cannot be empty"))
           unwound == Detach(Detach(stack[t]))
       IN  /\ span' = [marked EXCEPT ![r].val = EndSpan(@), ![r].srv = EndSpan(@)]
           /\ stack' = [stack EXCEPT ![t] = unwound]
           /\ exit' = [exit EXCEPT ![r] = unwound]
    /\ thread' = [thread EXCEPT ![r] = 0]
    /\ log' = [log EXCEPT ![r] = @ \o <<"val_sleep", "set_status_error", "panic",
                                       "val_detach", "val_close",
                                       "srv_detach", "srv_close">>]
    /\ pc' = [pc EXCEPT ![r] = "aborted"]
    /\ UNCHANGED <<req, base, parent, probe, sinkUp, sink, result, response>>

NextAbort ==
    \/ Next
    \/ \E r \in Requests : HelloAbort(r) \/ ValidateAbort(r)

SpecAbort == Init /\ [][NextAbort]_vars

\* ------------------------------------------------- HeaderExtractor alone
\* The header maps a HeaderExtractor is built over: any of the names with
\* any of the values.
CarrierNames == {"sentry-trace", "baggage"}
CarrierValues ==
    { [text |-> TRUE, wire |-> <<7, 9, 1>>],
      [text |-> TRUE, wire |-> <<7>>],
      [text |-> FALSE, wire |-> <<7, 9, 1>>] }
CarrierMaps == UNION {[D -> CarrierValues] : D \in SUBSET CarrierNames}

\* HeaderExtractor::new(&headers) over a header map; no request is handled.
CarrierInit ==
    /\ pc = [r \in Requests |-> "idle"]
    /\ req = [r \in Requests |-> NoRequest]
    /\ thread = [r \in Requests |-> 0]
    /\ stack = [t \in Threads |-> <<>>]
    /\ base = [r \in Requests |-> <<>>]
    /\ exit = [r \in Requests |-> NotReturned]
    /\ parent = [r \in Requests |-> EmptyCtx]
    /\ span = [r \in Requests |-> [srv |-> NoSpan, val |-> NoSpan, work |-> NoSpan]]
    /\ sinkUp = FALSE
    /\ sink = [r \in Requests |-> "none"]
    /\ result = [r \in Requests |-> None]
    /\ response = [r \in Requests |-> NoResponse]
    /\ log = [r \in Requests |-> <<>>]
    /\ \E h \in CarrierMaps : probe = [NoProbe EXCEPT !.initial = h, !.headers = h]

\* extractor.get(key): reads through the shared reference to the map.
CarrierGet(key) ==
    /\ probe' = [probe EXCEPT !.op = "get", !.key = key,
                              !.got = HeaderGet(probe.headers, key)]
    /\ UNCHANGED <<pc, req, thread, stack, base, exit, parent, span, sinkUp, sink,
                   result, response, log>>

\* extractor.keys()
CarrierListKeys ==
    /\ probe' = [probe EXCEPT !.op = "keys", !.names = HeaderKeys(probe.headers)]
    /\ UNCHANGED <<pc, req, thread, stack, base, exit, parent, span, sinkUp, sink,
                   result, response, log>>

CarrierNext ==
    \/ \E key \in CarrierKeys : CarrierGet(key)
    \/ CarrierListKeys

CarrierSpec == CarrierInit /\ [][CarrierNext]_vars

\* The steps of a handler that has been polled: each follows a sleep of
\* fixed length or a plain function return on a thread of its own, so none
\* is postponed for ever.
HandlerStep(r) ==
    \/ ValidateStart(r)
    \/ ValidateFail(r)
    \/ ValidateOk(r)
    \/ HelloReturnErr(r)
    \/ WorkStart(r)
    \/ HelloReturnOk(r)

\* Fairness asks no more than that, while some handler is running, some
\* handler takes a step.
FairSpec == Spec /\ WF_vars(\E r \in Requests : HandlerStep(r))

\* ------------------------------------------------------------ vocabulary
Returned(r) == pc[r] \in {"done", "failed"}
HasNonEmptyMessage(r) == req[r].query # Absent /\ req[r].query[1] # ""
HasNoMessage(r) == req[r].query = Absent \/ req[r].query = Present("")

Has(l, e) == \E i \in 1..Len(l) : l[i] = e
Count(l, e) == Cardinality({i \in 1..Len(l) : l[i] = e})
Pos(l, e) == IF Has(l, e) THEN CHOOSE i \in 1..Len(l) : l[i] = e ELSE 0
\* a occurs in l, and b occurs after it
Before(l, a, b) ==
    \E i \in 1..Len(l) : l[i] = a /\ \E j \in (i + 1)..Len(l) : l[j] = b

OwnSpanIds(r) ==
    {span[r].srv.span_id, span[r].val.span_id, span[r].work.span_id} \ {0}
AllSpanIds == UNION {OwnSpanIds(r) : r \in Requests}

\* ------------------------------------------------------------------- C1
\* C1: a request whose `message` is present and non-empty, whatever its
\* headers, returns status 200 with the body field `message` equal to
\* "Hello from Rust! You sent: " followed by the message as sent.
C1_SuccessEchoesMessage ==
    \A r \in Requests :
        (Returned(r) /\ HasNonEmptyMessage(r)) =>
            /\ pc[r] = "done"
            /\ response[r].status = 200
            /\ response[r].body =
                  <<"message", "Hello from Rust! You sent: " \o req[r].query[1]>>

C1_Witness ==
    \E r \in Requests :
        /\ pc[r] = "done"
        /\ req[r].query = Present("World")
        /\ req[r].headers # <<>>
        /\ response[r].body = <<"message", "Hello from Rust! You sent: World">>

\* ------------------------------------------------------------------- C2
\* C2: a request whose `message` is missing or empty returns
\* AppError::InvalidInput, rendered as status 400 with body
\* {"error": "Invalid input: Message cannot be empty"}, and nothing else.
C2_EmptyMessageIs400 ==
    \A r \in Requests :
        (Returned(r) /\ HasNoMessage(r)) =>
            /\ pc[r] = "failed"
            /\ result[r] = Some([variant |-> "InvalidInput",
                                 message |-> "Message cannot be empty"])
            /\ response[r] =
                  [status |-> 400,
                   body |-> <<"error", "Invalid input: Message cannot be empty">>]

C2_Witness ==
    \E r1, r2 \in Requests :
        /\ pc[r1] = "failed" /\ req[r1].query = Absent
        /\ pc[r2] = "failed" /\ req[r2].query = Present("")
        /\ response[r1].status = 400 /\ response[r2].status = 400

\* ------------------------------------------------------------------- C3
\* C3 as stated: for a request with non-empty `message` the Server span
\* has status Ok when it is closed.
C3_ServerSpanOk ==
    \A r \in Requests :
        (HasNonEmptyMessage(r) /\ span[r].srv.state = "closed") =>
            span[r].srv.status = Ok

\* C3 amended: for a request with non-empty `message` the Server span is
\* closed with the status it was created with, Unset; the only span hello
\* marks Ok is simulate_work.
C3_ServerSpanUnset ==
    \A r \in Requests :
        (HasNonEmptyMessage(r) /\ span[r].srv.state = "closed") =>
            /\ span[r].srv.status = Unset
            /\ span[r].work.state = "closed"
            /\ span[r].work.status = Ok

C3_Witness ==
    \E r \in Requests :
        /\ pc[r] = "done"
        /\ HasNonEmptyMessage(r)
        /\ span[r].srv.state = "closed"
        /\ span[r].srv.status = Unset

\* ------------------------------------------------------------------- C4
\* C4 as stated: for a request with missing or empty `message` the Server
\* span has status Error when it is closed.
C4_ServerSpanError ==
    \A r \in Requests :
        (HasNoMessage(r) /\ span[r].srv.state = "closed") =>
            span[r].srv.status.code = "Error"

\* C4 amended: for a request with missing or empty `message` the Error
\* status "Message cannot be empty" is on the validate_params span only;
\* the Server span is closed with status Unset.
C4_OnlyValidateSpanError ==
    \A r \in Requests :
        (HasNoMessage(r) /\ span[r].srv.state = "closed") =>
            /\ span[r].srv.status = Unset
            /\ span[r].val.state = "closed"
            /\ span[r].val.status = Error("Message cannot be empty")
            /\ span[r].work.state = "none"

C4_Witness ==
    \E r \in Requests :
        /\ pc[r] = "failed"
        /\ HasNoMessage(r)
        /\ span[r].srv.state = "closed"
        /\ span[r].val.status.code = "Error"

\* ------------------------------------------------------------------- C5
\* C5: with several requests handled concurrently on the worker threads,
\* the contexts a running request finds on its thread's stack above the
\* entries that were there when it started are contexts of its own spans
\* (so the current context is one of its own), the context it extracted is
\* no span of any request, and when its handler has returned the thread's
\* stack is what it was before the handler started.
C5_ContextIsolation ==
    \A r \in Requests :
        /\ thread[r] # 0 =>
            LET stk == stack[thread[r]]
                n == Len(base[r])
            IN  /\ Len(stk) > n
                /\ SubSeq(stk, 1, n) = base[r]
                /\ \A i \in (n + 1)..Len(stk) : stk[i].span_id \in OwnSpanIds(r)
                /\ CurrentContext(stk).span_id \in OwnSpanIds(r)
        /\ parent[r].span_id \notin AllSpanIds
        /\ Returned(r) => exit[r] = base[r]

C5_Witness ==
    \E r1, r2 \in Requests :
        /\ thread[r1] # 0 /\ thread[r2] # 0 /\ thread[r1] # thread[r2]
        /\ pc[r1] = "validating" /\ pc[r2] = "working"
        /\ Len(stack[thread[r1]]) = 2 /\ Len(stack[thread[r2]]) = 2

\* ------------------------------------------------------------------- C6
\* C6 as stated: for a completed request every child span has the Server
\* span's trace id, and the Server span's trace id is the trace id of the
\* context extracted from the headers.
C6_TraceIdFromExtractedContext ==
    \A r \in Requests :
        Returned(r) =>
            /\ span[r].val.trace_id = span[r].srv.trace_id
            /\ span[r].work.state # "none" =>
                  span[r].work.trace_id = span[r].srv.trace_id
            /\ span[r].srv.trace_id = parent[r].trace_id

\* C6 amended: for a completed request every child span has the Server
\* span's trace id; the Server span's trace id is the trace id of the
\* extracted context when that context carries a span context (a decodable
\* propagation header was sent), and otherwise a newly generated trace id,
\* the extracted context carrying none.
C6_TraceIdInherited ==
    \A r \in Requests :
        Returned(r) =>
            /\ span[r].val.state = "closed"
            /\ span[r].val.trace_id = span[r].srv.trace_id
            /\ span[r].work.state # "none" =>
                  span[r].work.trace_id = span[r].srv.trace_id
            /\ span[r].srv.trace_id # 0
            /\ parent[r].span_id # 0 =>
                  span[r].srv.trace_id = parent[r].trace_id
            /\ parent[r].span_id = 0 =>
                  /\ parent[r].trace_id = 0
                  /\ \A q \in Requests \ {r} :
                        span[q].srv.trace_id # span[r].srv.trace_id

C6_Witness ==
    \E r1, r2 \in Requests :
        /\ pc[r1] = "done" /\ parent[r1].span_id # 0
        /\ span[r1].work.trace_id = parent[r1].trace_id
        /\ Returned(r2) /\ parent[r2].span_id = 0
        /\ span[r2].val.trace_id = span[r2].srv.trace_id

\* ------------------------------------------------------------------- C7
\* C7: on every path of a request each child span is opened after the
\* Server span is opened and closed before the Server span is closed, and
\* the Server span is closed by the time the handler has returned.
ChildInsideServer(r, k, opened, closed) ==
    /\ span[r][k].state # "none" => span[r].srv.state # "none"
    /\ span[r].srv.state = "closed" => span[r][k].state # "open"
    /\ (Returned(r) /\ span[r][k].state = "none") => ~Has(log[r], opened)
    /\ (Returned(r) /\ span[r][k].state = "closed") =>
          /\ Before(log[r], "srv_open", opened)
          /\ Before(log[r], opened, closed)
          /\ Before(log[r], closed, "srv_close")
          /\ ~Before(log[r], "srv_close", closed)

C7_ChildrenNestedInServerSpan ==
    \A r \in Requests :
        /\ ChildInsideServer(r, "val", "val_open", "val_close")
        /\ ChildInsideServer(r, "work", "work_open", "work_close")
        /\ Returned(r) =>
              /\ span[r].srv.state = "closed"
              /\ span[r].val.state = "closed"
              /\ span[r].work.state \in {"none", "closed"}

C7_Witness ==
    \E r1, r2 \in Requests :
        /\ pc[r1] = "done"
        /\ Before(log[r1], "work_close", "srv_close")
        /\ Before(log[r1], "val_close", "work_open")
        /\ pc[r2] = "failed"
        /\ Before(log[r2], "val_close", "srv_close")
        /\ span[r2].work.state = "none"

\* ------------------------------------------------------------------- C8
\* C8: when the capture channel is unavailable, a request with missing or
\* empty `message` still ends with the 400 response carrying the
\* InvalidInput error; whether the event was sent or lost, the handler's
\* result is the same.
ExpectedFailure(r) ==
    /\ pc[r] = "failed"
    /\ result[r] = Some([variant |-> "InvalidInput",
                         message |-> "Message cannot be empty"])
    /\ response[r] =
          [status |-> 400,
           body |-> <<"error", "Invalid input: Message cannot be empty">>]

C8_CaptureOutcomeIrrelevant ==
    \A r \in Requests :
        /\ (Returned(r) /\ sink[r] = "lost") => ExpectedFailure(r)
        /\ (Returned(r) /\ sink[r] = "sent") => ExpectedFailure(r)
        /\ (Returned(r) /\ HasNoMessage(r)) => sink[r] = Capture(sinkUp)

C8_Witness ==
    \E r \in Requests :
        /\ ~sinkUp
        /\ pc[r] = "failed"
        /\ sink[r] = "lost"
        /\ response[r].status = 400

\* ------------------------------------------------------------------- C9
\* C9: in a request that fails validation the Error status "Message cannot
\* be empty" is set on the active span, then the error is captured, then
\* validate_message returns it, then hello returns it; neither telemetry
\* effect happens after the return.
C9_TelemetryBeforeReturn ==
    \A r \in Requests :
        /\ pc[r] \in {"val_err", "failed"} =>
              /\ span[r].val.status = Error("Message cannot be empty")
              /\ sink[r] # "none"
              /\ result[r] # None
        /\ pc[r] \notin {"val_err", "failed"} => sink[r] = "none"
        /\ pc[r] = "failed" =>
              LET l == log[r]
              IN  /\ Count(l, "set_status_error") = 1
                  /\ Count(l, "capture") = 1
                  /\ Before(l, "set_status_error", "capture")
                  /\ Before(l, "capture", "val_return_err")
                  /\ Before(l, "val_return_err", "return_err")
                  /\ \A i \in (Pos(l, "return_err") + 1)..Len(l) :
                        l[i] \in {"srv_detach", "srv_close"}

C9_Witness ==
    \E r \in Requests :
        /\ pc[r] = "failed"
        /\ Before(log[r], "set_status_error", "capture")
        /\ Before(log[r], "capture", "return_err")
        /\ span[r].val.status.code = "Error"

\* ------------------------------------------------------------------ C10
\* C10: a propagation header that is absent, malformed or not readable as
\* text never fails the request: the Server span is still opened, and the
\* response is the one the same query gets without that header.
C10_HeadersDoNotChangeResponse ==
    /\ \A r \in Requests :
          /\ pc[r] # "idle" => span[r].srv.state # "none"
          /\ pc[r] = "failed" => HasNoMessage(r)
          /\ Returned(r) => response[r].status \in {200, 400}
    /\ \A r1, r2 \in Requests :
          (Returned(r1) /\ Returned(r2) /\ req[r1].query = req[r2].query) =>
              response[r1] = response[r2]

C10_Witness ==
    \E r1, r2 \in Requests :
        /\ pc[r1] = "done" /\ pc[r2] = "done"
        /\ req[r1].headers = <<>>
        /\ TraceHeader \in DOMAIN req[r2].headers
        /\ HeaderGet(req[r2].headers, TraceHeader) = None
        /\ req[r1].query = req[r2].query
        /\ span[r2].srv.state = "closed"
        /\ response[r1] = response[r2]

\* ------------------------------------------------------------------ C11
\* C11: a request moves through Received, ContextExtracted, ServerSpanOpen
\* and Validating, then through ValidationFailed to Failed or through
\* ValidationOk, WorkSimulating and WorkDone to ResponseReady, and ends in
\* exactly one of the two terminal states; a request that fails validation
\* never opens a simulate_work span, and validation runs at most once.
HandlerOrder ==
    { <<"idle", "srv_open">>, <<"srv_open", "validating">>,
      <<"validating", "val_err">>, <<"validating", "val_ok">>,
      <<"val_err", "failed">>, <<"val_ok", "working">>,
      <<"working", "done">> }

C11_HandlerStateOrder ==
    [][\A r \in Requests :
          /\ pc'[r] # pc[r] => <<pc[r], pc'[r]>> \in HandlerOrder
          /\ (pc[r] = "idle" /\ pc'[r] = "srv_open") =>
                Before(log'[r], "extract", "srv_open")
          /\ pc'[r] = "val_err" => IsEmpty(MessageOf(req'[r].query))
          /\ pc'[r] = "val_ok" => ~IsEmpty(MessageOf(req'[r].query))
          /\ pc'[r] = "failed" =>
                /\ span'[r].work.state = "none"
                /\ Count(log'[r], "val_open") = 1
                /\ ~Has(log'[r], "work_open")
          /\ pc'[r] = "done" =>
                /\ Count(log'[r], "val_open") = 1
                /\ Before(log'[r], "val_return_ok", "work_open")
                /\ Before(log'[r], "work_sleep", "return_ok")
                /\ ~Has(log'[r], "return_err")]_vars

C11_Witness ==
    \E r1, r2 \in Requests :
        /\ pc[r1] = "failed" /\ span[r1].work.state = "none"
        /\ Before(log[r1], "val_return_err", "return_err")
        /\ pc[r2] = "done"
        /\ Before(log[r2], "val_return_ok", "work_open")

\* ------------------------------------------------------------------ C12
\* C12: attaching a context pushes it on the thread's stack and dropping
\* the guard pops exactly that entry on every exit path: while
\* validate_message runs its context is on top of the Server span's, after
\* it returns, with Ok or with Err, the current context is again the Server
\* span's context, and guards are dropped in the reverse order of their
\* attachment, leaving the stack as the handler found it.
IsGuardEvent(e) ==
    e \in {"srv_attach", "srv_detach", "val_attach", "val_detach",
           "work_attach", "work_detach"}
GuardEvents(l) == SelectSeq(l, IsGuardEvent)

C12_GuardsRestoreContext ==
    \A r \in Requests :
        /\ thread[r] # 0 =>
            LET stk == stack[thread[r]]
                srv == ContextOf(span[r].srv)
            IN  /\ pc[r] \in {"srv_open", "val_ok", "val_err"} =>
                      /\ stk = base[r] \o <<srv>>
                      /\ CurrentContext(stk) = srv
                /\ pc[r] = "validating" =>
                      stk = base[r] \o <<srv, ContextOf(span[r].val)>>
                /\ pc[r] = "working" =>
                      stk = base[r] \o <<srv, ContextOf(span[r].work)>>
        /\ Returned(r) =>
              /\ exit[r] = base[r]
              /\ GuardEvents(log[r]) =
                    IF pc[r] = "failed"
                    THEN <<"srv_attach", "val_attach", "val_detach", "srv_detach">>
                    ELSE <<"srv_attach", "val_attach", "val_detach",
                           "work_attach", "work_detach", "srv_detach">>

C12_Witness ==
    \E r1, r2 \in Requests :
        /\ pc[r1] = "val_err" /\ pc[r2] = "val_ok"
        /\ CurrentContext(stack[thread[r1]]) = ContextOf(span[r1].srv)
        /\ CurrentContext(stack[thread[r2]]) = ContextOf(span[r2].srv)
        /\ span[r1].val.state = "closed" /\ span[r2].val.state = "closed"

\* ------------------------------------------------------------------ C13
\* C13 as stated: each child span is closed when its own phase ends, not
\* at the end of the whole handler: validate_params is closed before
\* simulate_work is opened, and simulate_work is closed when the work is
\* done, before the handler goes on to build the success payload.
C13_ChildClosedAtPhaseEnd ==
    \A r \in Requests :
        /\ span[r].work.state # "none" => span[r].val.state = "closed"
        /\ pc[r] = "done" =>
              /\ Before(log[r], "val_close", "work_open")
              /\ Before(log[r], "work_close", "return_ok")

\* C13 amended: validate_params is closed when validate_message returns,
\* before simulate_work is opened, so the two child spans are never open
\* at the same time; simulate_work is closed at the end of the handler,
\* after the success payload has been built and immediately before the
\* Server span is closed.
C13_WorkSpanClosedAtHandlerEnd ==
    \A r \in Requests :
        /\ span[r].work.state # "none" => span[r].val.state = "closed"
        /\ ~(span[r].val.state = "open" /\ span[r].work.state = "open")
        /\ pc[r] \in {"val_ok", "val_err"} => span[r].val.state = "closed"
        /\ pc[r] = "working" => span[r].work.state = "open"
        /\ pc[r] = "done" =>
              /\ span[r].work.state = "closed"
              /\ Before(log[r], "val_close", "work_open")
              /\ Before(log[r], "work_sleep", "return_ok")
              /\ Before(log[r], "return_ok", "work_close")
              /\ Before(log[r], "work_close", "srv_close")

C13_Witness ==
    \E r1, r2 \in Requests :
        /\ pc[r1] = "working"
        /\ span[r1].val.state = "closed" /\ span[r1].work.state = "open"
        /\ pc[r2] = "done"
        /\ Before(log[r2], "return_ok", "work_close")

\* ------------------------------------------------------------------ C14
\* C14 as stated: when validation succeeds, the validate_params span has
\* status Ok when it is closed.
C14_ValidateSpanOk ==
    \A r \in Requests :
        (HasNonEmptyMessage(r) /\ span[r].val.state = "closed") =>
            span[r].val.status = Ok

\* C14 amended: when validation succeeds, the validate_params span is
\* closed with the status it was created with, Unset; validate_message
\* sets a status only on the failing path.
C14_ValidateSpanUnset ==
    \A r \in Requests :
        /\ (HasNonEmptyMessage(r) /\ span[r].val.state = "closed") =>
              span[r].val.status = Unset
        /\ (HasNonEmptyMessage(r) /\ Returned(r)) =>
              /\ span[r].val.state = "closed"
              /\ ~Has(log[r], "set_status_error")
              /\ ~Has(log[r], "val_set_ok")

C14_Witness ==
    \E r \in Requests :
        /\ pc[r] = "val_ok"
        /\ HasNonEmptyMessage(r)
        /\ span[r].val.state = "closed"
        /\ span[r].val.status = Unset

\* ------------------------------------------------------------------ C15
\* C15 as stated: in the work phase the span is opened and made current,
\* the work is performed, then the span is marked Ok, then closed; the
\* span's status is not Ok while the work has not yet been performed.
C15_OkOnlyAfterWork ==
    \A r \in Requests :
        /\ pc[r] = "working" => span[r].work.status # Ok
        /\ pc[r] = "done" =>
              /\ Before(log[r], "work_attach", "work_sleep")
              /\ Before(log[r], "work_sleep", "work_set_ok")
              /\ Before(log[r], "work_set_ok", "work_close")

\* C15 amended: in the work phase the span is opened, marked Ok, made
\* current, then the work is performed, then the span is closed; the
\* span's status is already Ok during the whole of the work.
C15_WorkMarkedOkAtOpen ==
    \A r \in Requests :
        /\ pc[r] = "working" =>
              /\ span[r].work.state = "open"
              /\ span[r].work.status = Ok
              /\ ~Has(log[r], "work_sleep")
        /\ pc[r] = "done" =>
              /\ span[r].work.status = Ok
              /\ Count(log[r], "work_set_ok") = 1
              /\ Before(log[r], "work_open", "work_set_ok")
              /\ Before(log[r], "work_set_ok", "work_attach")
              /\ Before(log[r], "work_attach", "work_sleep")
              /\ Before(log[r], "work_sleep", "work_close")

C15_Witness ==
    \E r1, r2 \in Requests :
        /\ pc[r1] = "working" /\ span[r1].work.status = Ok
        /\ pc[r2] = "done"
        /\ Before(log[r2], "work_set_ok", "work_sleep")

\* ------------------------------------------------------------------ C19
\* C19: the capture channel is invoked exactly once for each request that
\* fails validation and never for one that succeeds, so the number of
\* captured errors equals the number of 400 responses; the Error status is
\* set on the span that is active at detection, which is the request's own
\* validate_params span and no other span of any request.
CapturedRequests == {r \in Requests : sink[r] # "none" /\ Returned(r)}
BadRequestResponses == {r \in Requests : response[r].status = 400}

C19_CaptureOncePerFailure ==
    /\ \A r \in Requests :
          /\ pc[r] = "validating" =>
                ActiveSpanId(stack[thread[r]]) = span[r].val.span_id
          /\ pc[r] \in {"val_err", "failed"} =>
                /\ sink[r] # "none"
                /\ span[r].val.status = Error("Message cannot be empty")
          /\ pc[r] = "failed" =>
                /\ Count(log[r], "capture") = 1
                /\ Count(log[r], "set_status_error") = 1
          /\ pc[r] = "done" =>
                /\ sink[r] = "none"
                /\ ~Has(log[r], "capture")
          /\ span[r].srv.status.code # "Error"
          /\ span[r].work.status.code # "Error"
          /\ span[r].val.status.code = "Error" =>
                /\ HasNoMessage(r)
                /\ pc[r] \in {"val_err", "failed"}
    /\ Cardinality(CapturedRequests) = Cardinality(BadRequestResponses)
    /\ CapturedRequests = BadRequestResponses

C19_Witness ==
    \E r1, r2 \in Requests :
        /\ pc[r1] = "failed" /\ Count(log[r1], "capture") = 1
        /\ sink[r1] # "none" /\ response[r1].status = 400
        /\ pc[r2] = "done" /\ sink[r2] = "none"
        /\ Cardinality(CapturedRequests) = 1

\* ------------------------------------------------------------------ C20
\* C20: the span tree of a request is flat: validate_params and
\* simulate_work both have the Server span as direct parent (simulate_work
\* is never a child of validate_params), the Server span's parent is the
\* span id of the extracted context, and at most two contexts of one
\* request are on its thread's stack: the Server context plus at most one
\* child context.
C20_FlatSpanTree ==
    \A r \in Requests :
        /\ span[r].srv.state # "none" =>
              /\ span[r].srv.kind = "Server"
              /\ span[r].srv.parent_span_id = parent[r].span_id
        /\ span[r].val.state # "none" =>
              /\ span[r].val.kind = "Internal"
              /\ span[r].val.parent_span_id = span[r].srv.span_id
        /\ span[r].work.state # "none" =>
              /\ span[r].work.kind = "Internal"
              /\ span[r].work.parent_span_id = span[r].srv.span_id
              /\ span[r].work.parent_span_id # span[r].val.span_id
        /\ thread[r] # 0 =>
              LET stk == stack[thread[r]]
                  n == Len(base[r])
              IN  /\ Len(stk) - n \in {1, 2}
                  /\ stk[n + 1] = ContextOf(span[r].srv)
                  /\ Len(stk) - n = 2 =>
                        stk[n + 2] \in {ContextOf(span[r].val), ContextOf(span[r].work)}

C20_Witness ==
    \E r \in Requests :
        /\ pc[r] = "working"
        /\ parent[r].span_id # 0
        /\ span[r].srv.parent_span_id = parent[r].span_id
        /\ span[r].val.parent_span_id = span[r].srv.span_id
        /\ span[r].work.parent_span_id = span[r].srv.span_id
        /\ Len(stack[thread[r]]) - Len(base[r]) = 2

\* ------------------------------------------------------------------ C17
\* C17: while requests are inside their waits the other tasks are not
\* blocked: with every running handler inside a wait, however many they
\* are compared with the runtime's worker cores, the next request that
\* arrives is polled, every running handler can take its next step, and
\* under fair scheduling every request whose handler has started reaches
\* its terminal state.
Running == {q \in Requests : thread[q] # 0}

C17_NotBlocked ==
    \A r \in Requests :
        /\ (/\ pc[r] = "idle"
            /\ \A q \in 1..(r - 1) : pc[q] # "idle"
            /\ \A q \in Running : InDelay(q)) => ENABLED HelloStart(r)
        /\ thread[r] # 0 => ENABLED HandlerStep(r)

\* Requests are finitely many and a handler never goes back to "idle" or
\* leaves a terminal state, so "every started handler eventually returns"
\* is "from some point on every request is unstarted or returned".
C17_DelaysDoNotBlock ==
    /\ []C17_NotBlocked
    /\ <>[](\A r \in Requests : pc[r] = "idle" \/ Returned(r))

C17_Witness ==
    /\ Cardinality({q \in Requests : InDelay(q)}) > NumWorkers
    /\ \E r1, r2 \in Requests :
          /\ pc[r1] = "working" /\ pc[r2] = "srv_open"
          /\ thread[r1] # thread[r2]

\* ------------------------------------------------------------------ C16
\* C16 as stated: when a handler is aborted while spans are open, every
\* span opened for the request is still closed, and it carries an Error
\* status "cancelled" or "unterminated" rather than the status it happened
\* to have.
OpenedSpans(r) == {k \in {"srv", "val", "work"} : span[r][k].state # "none"}

C16_AbortedSpansMarkedError ==
    \A r \in Requests :
        pc[r] = "aborted" =>
            \A k \in OpenedSpans(r) :
                /\ span[r][k].state = "closed"
                /\ span[r][k].status.code = "Error"
                /\ span[r][k].status.description \in {"cancelled", "unterminated"}

\* C16 amended: when a handler is aborted while spans are open (a panic
\* unwinding it), every span opened for the request is still closed, in
\* reverse order of opening, and the thread's stack is restored; each span
\* keeps the status it happened to have: the Server span Unset, and
\* validate_params Error "Message cannot be empty" when it had been marked;
\* no "cancelled" or "unterminated" status is synthesized, nothing is
\* captured and no response is produced.
C16_AbortedSpansKeepStatus ==
    \A r \in Requests :
        pc[r] = "aborted" =>
            /\ OpenedSpans(r) # {}
            /\ \A k \in OpenedSpans(r) :
                  /\ span[r][k].state = "closed"
                  /\ span[r][k].status.description \notin {"cancelled", "unterminated"}
            /\ span[r].srv.status = Unset
            /\ span[r].val.state = "closed" =>
                  /\ span[r].val.status = Error("Message cannot be empty")
                  /\ Before(log[r], "val_close", "srv_close")
            /\ span[r].work.state = "none"
            /\ exit[r] = base[r]
            /\ thread[r] = 0
            /\ sink[r] = "none"
            /\ response[r] = NoResponse

C16_Witness ==
    \E r1, r2 \in Requests :
        /\ pc[r1] = "aborted" /\ OpenedSpans(r1) = {"srv"}
        /\ span[r1].srv.state = "closed" /\ span[r1].srv.status = Unset
        /\ pc[r2] = "aborted" /\ OpenedSpans(r2) = {"srv", "val"}
        /\ span[r2].val.state = "closed" /\ span[r2].val.status.code = "Error"

\* ------------------------------------------------------------------ C18
\* C18: the header carrier is a read-only view that never fails: get
\* returns none for an absent key and for a value that is not text,
\* returns the stored value of a present header whatever the letter case
\* of the key, keys() lists every header name of the map, and neither
\* operation changes the map.
Spellings(name) ==
    CASE name = "sentry-trace" -> {"sentry-trace", "Sentry-Trace", "SENTRY-TRACE"}
      [] name = "baggage" -> {"baggage", "Baggage"}
      [] OTHER -> {name}

C18_CarrierReadOnlyView ==
    /\ probe.headers = probe.initial
    /\ probe.got = None \/ \E v \in CarrierValues : probe.got = Some(v.wire)
    /\ probe.op = "get" =>
          /\ (\A n \in DOMAIN probe.headers : probe.key \notin Spellings(n)) =>
                probe.got = None
          /\ \A n \in DOMAIN probe.headers :
                probe.key \in Spellings(n) =>
                    probe.got = IF probe.headers[n].text
                                THEN Some(probe.headers[n].wire)
                                ELSE None
    /\ probe.names # {} => probe.names = DOMAIN probe.headers
    /\ probe.op = "keys" => probe.names = DOMAIN probe.headers

C18_Witness ==
    /\ probe.op = "get"
    /\ probe.key = "Sentry-Trace"
    /\ DOMAIN probe.headers = CarrierNames
    /\ probe.headers["sentry-trace"].text
    /\ probe.got = Some(<<7, 9, 1>>)
    /\ probe.names = {"sentry-trace", "baggage"}
    /\ ~probe.headers["baggage"].text
    /\ HeaderGet(probe.headers, "Baggage") = None
    /\ HeaderGet(probe.headers, "x-missing") = None
====
